---- MODULE Spec2Model ----
(***************************************************************************)
(* The judging pipeline of the Online Judge                                *)
(* (main/submit/services/executor.py) together with the view that calls it *)
(* (main/submit/views.py) and the tables it reads and writes               *)
(* (main/submit/models.py, main/problems/models.py).                       *)
(*                                                                         *)
(* The database runs in Django's default autocommit mode: every ORM call   *)
(* (save, create, count, exists, get) is one atomic statement, and the     *)
(* statements of concurrent requests interleave freely.  A step of the     *)
(* model is one such statement together with the local computation that    *)
(* precedes it in the same run.                                            *)
(*                                                                         *)
(* Every write to the database and the creation of the workspace may raise *)
(* (a disjunct of the action that performs it).  A read that raises takes  *)
(* the run where the next failing write of the same block would, so reads  *)
(* do not raise here.  Test cases carry distinct order indices and are     *)
(* not edited while submissions are judged, except in SpecEdit.            *)
(*                                                                         *)
(* Specifications:                                                         *)
(*   Spec         concurrent requests; each submission is judged by one    *)
(*                call of execute_submission, the one its view makes       *)
(*   SpecFair     Spec with weak fairness of every call's steps            *)
(*   SpecSeq      requests served one at a time                            *)
(*   SpecRejudge  SpecSeq with execute_submission called again for a       *)
(*                judged submission                                        *)
(*   SpecEdit     one submission judged while an administrator adds and    *)
(*                deletes test cases of its problem                        *)
(*   SpecRunTest  _run_test alone, applied to every process outcome        *)
(***************************************************************************)
EXTENDS Integers, Sequences, FiniteSets, TLC

\* ---------------------------------------------------------------- bounds
NUsers == 2
NProblems == 1
MaxSubs == 2
MaxRuns == 2
MaxTests == 2

Users == 1..NUsers
Problems == 1..NProblems
SubIds == 1..MaxSubs
RunIds == 1..MaxRuns
DirNames == 1..MaxRuns

\* ------------------------------------------------------- program constants
\* Problem.time_limit, in seconds (its default)
time_limit == 2

\* SubmissionStatus
PENDING == "pending"
RUNNING == "running"
ACCEPTED == "accepted"
WRONG_ANSWER == "wrong_answer"
TIME_LIMIT_EXCEEDED == "tle"
RUNTIME_ERROR == "rte"
COMPILATION_ERROR == "ce"
MEMORY_LIMIT_EXCEEDED == "mle"

SubmissionStatus ==
    {PENDING, RUNNING, ACCEPTED, WRONG_ANSWER, TIME_LIMIT_EXCEEDED,
     RUNTIME_ERROR, COMPILATION_ERROR, MEMORY_LIMIT_EXCEEDED}

\* LanguageChoice
LanguageChoice == {"py", "cpp", "c", "java"}

\* CodeExecutor.LANGUAGE_CONFIG: has_compile_cmd is (compile_cmd is not None)
LANGUAGE_CONFIG ==
    [py   |-> [extension |-> ".py",   has_compile_cmd |-> FALSE],
     cpp  |-> [extension |-> ".cpp",  has_compile_cmd |-> TRUE],
     c    |-> [extension |-> ".c",    has_compile_cmd |-> TRUE],
     java |-> [extension |-> ".java", has_compile_cmd |-> TRUE]]

\* Python's None for the nullable integer column Submission.runtime_ms
None == -1

\* ------------------------------------------------------------ pure helpers
\* str.strip(): leading and trailing whitespace removed.  Text that is
\* compared is a sequence of one-character strings.
Whitespace == {" ", "\n", "\t"}

RECURSIVE lstrip(_)
lstrip(s) ==
    IF s # <<>> /\ Head(s) \in Whitespace THEN lstrip(Tail(s)) ELSE s

RECURSIVE rstrip(_)
rstrip(s) ==
    IF s # <<>> /\ s[Len(s)] \in Whitespace
    THEN rstrip(SubSeq(s, 1, Len(s) - 1))
    ELSE s

strip(s) == rstrip(lstrip(s))

\* ExecutionResult dataclass (memory_kb keeps its default 0)
ExecutionResult(status, actual_output, error_message, runtime_ms) ==
    [status |-> status, actual_output |-> actual_output,
     error_message |-> error_message, runtime_ms |-> runtime_ms,
     memory_kb |-> 0]

\* What subprocess.run can do: kind "completed" (returncode, stdout, stderr,
\* wall time elapsed_ms), "TimeoutExpired", or "Exception" (cannot launch;
\* stderr then holds str(e)).
Proc(kind, returncode, stdout, stderr, elapsed_ms) ==
    [kind |-> kind, returncode |-> returncode, stdout |-> stdout,
     stderr |-> stderr, elapsed_ms |-> elapsed_ms]

\* CodeExecutor._compile: <<>> is None, <<msg>> is the error message.
\* stdout and stderr of the compiler are plain strings here.
_compile(language, proc) ==
    IF ~LANGUAGE_CONFIG[language].has_compile_cmd THEN <<>>
    ELSE IF proc.kind = "TimeoutExpired" THEN <<"Compilation timed out">>
    ELSE IF proc.kind = "Exception" THEN <<"Compilation error: " \o proc.stderr>>
    ELSE IF proc.returncode # 0
         THEN IF proc.stderr # "" THEN <<proc.stderr>>
              ELSE IF proc.stdout # "" THEN <<proc.stdout>>
              ELSE <<"Compilation failed">>
    ELSE <<>>

\* Python truthiness of an Optional[str]
Truthy(opt) == opt # <<>> /\ opt[1] # ""

\* _run_test comparing the output as captured, without strip()
_run_test_no_strip(proc, expected_text) ==
    IF proc.kind = "TimeoutExpired"
    THEN ExecutionResult(TIME_LIMIT_EXCEEDED, <<>>, "", time_limit * 1000)
    ELSE IF proc.kind = "Exception"
    THEN ExecutionResult(RUNTIME_ERROR, <<>>, proc.stderr, 0)
    ELSE IF proc.returncode # 0
    THEN ExecutionResult(RUNTIME_ERROR, proc.stdout, proc.stderr, proc.elapsed_ms)
    ELSE IF proc.stdout = expected_text
         THEN ExecutionResult(ACCEPTED, proc.stdout, "", proc.elapsed_ms)
         ELSE ExecutionResult(WRONG_ANSWER, proc.stdout, "", proc.elapsed_ms)

\* CodeExecutor._run_test, given what the child process did
_run_test(proc, expected_text) ==
    IF proc.kind = "TimeoutExpired"
    THEN ExecutionResult(TIME_LIMIT_EXCEEDED, <<>>, "", time_limit * 1000)
    ELSE IF proc.kind = "Exception"
    THEN ExecutionResult(RUNTIME_ERROR, <<>>, proc.stderr, 0)
    ELSE IF proc.returncode # 0
    THEN ExecutionResult(RUNTIME_ERROR, proc.stdout, proc.stderr, proc.elapsed_ms)
    ELSE LET actual_output == strip(proc.stdout)
             expected == strip(expected_text)
         IN  IF actual_output = expected
             THEN ExecutionResult(ACCEPTED, actual_output, "", proc.elapsed_ms)
             ELSE ExecutionResult(WRONG_ANSWER, actual_output, "", proc.elapsed_ms)

\* ------------------------------------------------------------------ inputs
\* TestCase.expected_output of the test case with order index t
expected_output(t) == IF t % 2 = 1 THEN <<"5", "\n">> ELSE <<" ", "5">>

\* The languages submitted: one interpreted, one compiled (c and java take
\* the same path as cpp)
Languages == {"py", "cpp"}

\* What a submitted program may do on one test
RunOutcomes ==
    {Proc("completed", 0, <<"5", "\n">>, "", 1),
     Proc("completed", 0, <<"6", "\n">>, "", 1),
     Proc("completed", 1, <<>>, "Traceback", 1),
     Proc("TimeoutExpired", 0, <<>>, "", 0)}

\* What the compiler may do
CompileOutcomes ==
    {Proc("completed", 0, "", "", 0),
     Proc("completed", 1, "", "error: expected ';'", 0)}

\* ------------------------------------------------------------------- state
VARIABLES
    Submission,            \* table: sequence of rows, id = index
    SubmissionTestResult,  \* table: per submission id, its rows as created
    Problem,               \* table: per problem id, the two counters
    TestCase,              \* table: per problem id, the order indices
    runs,                  \* the calls of execute_submission, in call order;
                           \* pc = "idle": a call not made yet
    call                   \* one call of _run_test taken on its own: the
                           \* process outcome, the expected output, the result

vars == <<Submission, SubmissionTestResult, Problem, TestCase, runs, call>>

\* The query cut to its first row, as .order_by('order')[:1] would be
order_by_first_row(S) ==
    IF S = {} THEN <<>>
    ELSE <<CHOOSE x \in S : \A y \in S : x <= y>>

\* The rows of TestCase.objects.filter(problem=p).order_by('order')
RECURSIVE order_by(_)
order_by(S) ==
    IF S = {} THEN <<>>
    ELSE LET m == CHOOSE x \in S : \A y \in S : x <= y
         IN  <<m>> \o order_by(S \ {m})

\* An UPDATE without its WHERE id = clause: every row is written
save_unfiltered(table, id, obj) == [s \in DOMAIN table |-> obj]

\* Model.save() with no update_fields: every column is written from the
\* object in memory
save(table, id, obj) == [table EXCEPT ![id] = obj]

\* A new Submission row (models.py defaults)
NewSubmission(user, problem, language) ==
    [user |-> user, problem |-> problem, language |-> language,
     status |-> PENDING, runtime_ms |-> None, error_message |-> "",
     tests_passed |-> 0, tests_total |-> 0, judged_at |-> FALSE]

\* A call of execute_submission(submission_id) that has just been made.
\* submission and problem are the objects in memory (unset until loaded);
\* solve_f tells that problem.solve_count holds F('solve_count') + 1.
\* temp_dir is "none" before the with block is entered, "live" inside it,
\* "removed" after it; temp_name is the directory's name while it exists.
\* The last five fields are history: what this call did so far.
NewRun(submission_id) ==
    [pc |-> "get", submission_id |-> submission_id,
     submission |-> NewSubmission(0, 0, ""),
     problem |-> [id |-> 0, solve_count |-> 0, attempt_count |-> 0],
     solve_f |-> FALSE,
     total_tests |-> 0, test_cases |-> <<>>, idx |-> 1,
     passed_tests |-> 0, final_status |-> ACCEPTED, total_runtime |-> 0,
     temp_dir |-> "none", temp_name |-> 0, error |-> "",
     build_failed |-> FALSE, tests_run |-> 0, raised |-> FALSE,
     attempt_incs |-> 0, solve_incs |-> 0]

IdleRun == [NewRun(0) EXCEPT !.pc = "idle"]

\* No call of _run_test is looked at on its own
NoCall ==
    [proc |-> Proc("none", 0, <<>>, "", 0), expected |-> <<>>,
     done |-> FALSE, result |-> ExecutionResult("", <<>>, "", 0)]

Init ==
    /\ Submission = <<>>
    /\ SubmissionTestResult = [s \in SubIds |-> <<>>]
    /\ Problem = [p \in Problems |-> [solve_count |-> 0, attempt_count |-> 0]]
    /\ TestCase \in [Problems -> {1..n : n \in 0..MaxTests}]
    /\ runs = [r \in RunIds |-> IdleRun]
    /\ call = NoCall

\* views.submit_solution, POST with valid input: the row is created and
\* execute_submission(submission.id) is called in the same request
submit_solution(user, problem, language) ==
    /\ Len(Submission) < MaxSubs
    /\ \E r \in RunIds :
          /\ runs[r].pc = "idle"
          /\ \A q \in RunIds : q < r => runs[q].pc # "idle"
          /\ runs' = [runs EXCEPT ![r] = NewRun(Len(Submission) + 1)]
    /\ Submission' = Append(Submission, NewSubmission(user, problem, language))
    /\ UNCHANGED <<SubmissionTestResult, Problem, TestCase, call>>

\* An exception raised inside the with block of execute_all: the temporary
\* directory is removed on the way out, then the except clause runs
Raise(run, text) ==
    [run EXCEPT !.pc = "except", !.error = text, !.raised = TRUE,
                !.temp_dir = IF @ = "live" THEN "removed" ELSE @,
                !.temp_name = 0]

\* execute_submission: Submission.objects.select_related('problem').get and
\* CodeExecutor.__init__
execute_submission(r) ==
    /\ runs[r].pc = "get"
    /\ LET row == Submission[runs[r].submission_id]
           p == row.problem
       IN  runs' = [runs EXCEPT ![r] =
              [@ EXCEPT !.submission = row,
                        !.problem = [id |-> p,
                                     solve_count |-> Problem[p].solve_count,
                                     attempt_count |-> Problem[p].attempt_count],
                        !.pc = IF row.language \in DOMAIN LANGUAGE_CONFIG
                               THEN "set_running"
                               ELSE "returned"]]
    /\ UNCHANGED <<Submission, SubmissionTestResult, Problem, TestCase, call>>

\* execute_all: status = RUNNING; save().  Outside the try block: an
\* exception of save() reaches execute_submission, which logs it and returns
set_running(r) ==
    /\ runs[r].pc = "set_running"
    /\ LET obj == [runs[r].submission EXCEPT !.status = RUNNING]
       IN  \/ /\ Submission' = save(Submission, runs[r].submission_id, obj)
              /\ runs' = [runs EXCEPT ![r] =
                    [@ EXCEPT !.submission = obj, !.pc = "count"]]
           \/ /\ runs' = [runs EXCEPT ![r] =
                    [@ EXCEPT !.submission = obj, !.pc = "returned"]]
              /\ UNCHANGED Submission
    /\ UNCHANGED <<SubmissionTestResult, Problem, TestCase, call>>

\* execute_all: total_tests = test_cases.count() and the initial locals
count_tests(r) ==
    /\ runs[r].pc = "count"
    /\ runs' = [runs EXCEPT ![r] =
          [@ EXCEPT !.total_tests = Cardinality(TestCase[runs[r].problem.id]),
                    !.passed_tests = 0, !.final_status = ACCEPTED,
                    !.total_runtime = 0, !.pc = "tempdir"]]
    /\ UNCHANGED <<Submission, SubmissionTestResult, Problem, TestCase, call>>

\* Every run is given the same directory
mkdtemp_fixed(existing) == 1

\* tempfile.mkdtemp: a directory that did not exist is created (the name is
\* random; mkdir fails on an existing name and another name is tried).
\* Names are numbers here, and the least free one is taken.
mkdtemp(existing) ==
    CHOOSE n \in DirNames \ existing : \A k \in DirNames \ existing : n <= k

\* The temporary directories that exist
LiveDirs == {runs[q].temp_name : q \in {x \in RunIds : runs[x].temp_dir = "live"}}

\* execute_all: with tempfile.TemporaryDirectory() and _prepare_files
prepare_files(r) ==
    /\ runs[r].pc = "tempdir"
    /\ \/ runs' = [runs EXCEPT ![r] =
             [@ EXCEPT !.temp_dir = "live", !.temp_name = mkdtemp(LiveDirs),
                       !.pc = "compile"]]
       \/ runs' = [runs EXCEPT ![r] = Raise(@, "cannot create directory")]
       \/ runs' = [runs EXCEPT ![r] =
             Raise([@ EXCEPT !.temp_dir = "live"], "cannot write source")]
    /\ UNCHANGED <<Submission, SubmissionTestResult, Problem, TestCase, call>>

\* The compilation-error branch without its tests_total assignment
compilation_error_no_total(submission, message, total_tests) ==
    [submission EXCEPT
        !.status = COMPILATION_ERROR,
        !.error_message = message,
        !.tests_passed = 0,
        !.judged_at = TRUE]

\* execute_all: the fields the compilation-error branch assigns
compilation_error(submission, message, total_tests) ==
    [submission EXCEPT
        !.status = COMPILATION_ERROR,
        !.error_message = message,
        !.tests_total = total_tests,
        !.tests_passed = 0,
        !.judged_at = TRUE]

\* execute_all: _compile, the compilation-error branch, and on success the
\* query that the for loop evaluates (test_cases is a lazy QuerySet)
compile(r) ==
    /\ runs[r].pc = "compile"
    /\ \E proc \in CompileOutcomes :
         LET run == runs[r]
             compile_result == _compile(run.submission.language, proc)
             obj == compilation_error(run.submission, compile_result[1],
                                      run.total_tests)
             rows == order_by(TestCase[run.problem.id])
         IN  IF Truthy(compile_result)
             THEN \/ /\ Submission' = save(Submission, run.submission_id, obj)
                     /\ runs' = [runs EXCEPT ![r] =
                           [run EXCEPT !.submission = obj,
                                       !.build_failed = TRUE,
                                       !.temp_dir = "removed",
                                       !.temp_name = 0,
                                       !.pc = "returned"]]
                  \/ /\ runs' = [runs EXCEPT ![r] =
                           Raise([run EXCEPT !.submission = obj,
                                             !.build_failed = TRUE],
                                 "database error")]
                     /\ UNCHANGED Submission
             ELSE /\ runs' = [runs EXCEPT ![r] =
                        [run EXCEPT !.test_cases = rows, !.idx = 1,
                                    !.pc = IF rows = <<>> THEN "final_save"
                                           ELSE "run_test"]]
                  /\ UNCHANGED Submission
    /\ UNCHANGED <<SubmissionTestResult, Problem, TestCase, call>>

\* The aggregation with the verdict of the last test run as final status
Aggregate_last_wins(run, result) ==
    [run EXCEPT
        !.total_runtime = @ + result.runtime_ms,
        !.passed_tests = IF result.status = ACCEPTED THEN @ + 1 ELSE @,
        !.final_status = result.status]

\* The aggregation without the guard final_status == ACCEPTED: the last
\* failing test determines the final status
Aggregate_last_failing(run, result) ==
    [run EXCEPT
        !.total_runtime = @ + result.runtime_ms,
        !.passed_tests = IF result.status = ACCEPTED THEN @ + 1 ELSE @,
        !.final_status = IF result.status # ACCEPTED
                         THEN result.status ELSE @]

\* The verdict aggregation of the loop body of execute_all
Aggregate(run, result) ==
    [run EXCEPT
        !.total_runtime = @ + result.runtime_ms,
        !.passed_tests = IF result.status = ACCEPTED THEN @ + 1 ELSE @,
        !.final_status = IF result.status # ACCEPTED /\ @ = ACCEPTED
                         THEN result.status ELSE @]

\* execute_all: one turn of the for loop: _run_test, then
\* SubmissionTestResult.objects.create, then the aggregation.  The create
\* succeeds only while the test case row still exists (foreign key).
run_test(r) ==
    /\ runs[r].pc = "run_test"
    /\ \E proc \in RunOutcomes :
         LET run == [runs[r] EXCEPT !.tests_run = @ + 1]
             test_case == run.test_cases[run.idx]
             result == _run_test(proc, expected_output(test_case))
             row == [test_case |-> test_case, status |-> result.status,
                     actual_output |-> result.actual_output,
                     runtime_ms |-> result.runtime_ms,
                     memory_kb |-> result.memory_kb,
                     error_message |-> result.error_message]
         IN  \/ /\ test_case \in TestCase[run.problem.id]
                /\ SubmissionTestResult' =
                      [SubmissionTestResult EXCEPT
                          ![run.submission_id] = Append(@, row)]
                /\ runs' = [runs EXCEPT ![r] =
                      [Aggregate(run, result) EXCEPT
                          !.idx = @ + 1,
                          !.pc = IF run.idx = Len(run.test_cases)
                                 THEN "final_save" ELSE "run_test"]]
             \/ /\ runs' = [runs EXCEPT ![r] = Raise(run, "database error")]
                /\ UNCHANGED SubmissionTestResult
    /\ UNCHANGED <<Submission, Problem, TestCase, call>>

\* execute_all: "Update submission with final results" and save()
final_save(r) ==
    /\ runs[r].pc = "final_save"
    /\ LET run == runs[r]
           obj == [run.submission EXCEPT
                      !.status = run.final_status,
                      !.tests_passed = run.passed_tests,
                      !.tests_total = run.total_tests,
                      !.runtime_ms = run.total_runtime,
                      !.judged_at = TRUE]
       IN  \/ /\ Submission' = save(Submission, run.submission_id, obj)
              /\ runs' = [runs EXCEPT ![r] =
                    [run EXCEPT !.submission = obj, !.pc = "update_stats"]]
           \/ /\ runs' = [runs EXCEPT ![r] =
                    Raise([run EXCEPT !.submission = obj], "database error")]
              /\ UNCHANGED Submission
    /\ UNCHANGED <<SubmissionTestResult, Problem, TestCase, call>>

\* The query filtering on the label 'Accepted' instead of the stored value:
\* it never finds a row
existing_accepted_label(table, user, problem, id) ==
    \E s \in 1..Len(table) :
        /\ table[s].user = user
        /\ table[s].problem = problem
        /\ table[s].status = "Accepted"
        /\ s # id

\* The query without .exclude(id=self.submission.id)
existing_accepted_no_exclude(table, user, problem, id) ==
    \E s \in 1..Len(table) :
        /\ table[s].user = user
        /\ table[s].problem = problem
        /\ table[s].status = ACCEPTED

\* _update_problem_stats: Submission.objects.filter(user=, problem=,
\* status=ACCEPTED).exclude(id=).exists()
existing_accepted(table, user, problem, id) ==
    \E s \in 1..Len(table) :
        /\ table[s].user = user
        /\ table[s].problem = problem
        /\ table[s].status = ACCEPTED
        /\ s # id

\* _update_problem_stats up to the save: attempt_count is always assigned
\* F('attempt_count') + 1; solve_count is assigned F('solve_count') + 1 only
\* for a first acceptance
update_problem_stats(r) ==
    /\ runs[r].pc = "update_stats"
    /\ LET run == runs[r]
           is_accepted == run.final_status = ACCEPTED
       IN  runs' = [runs EXCEPT ![r] =
              [run EXCEPT
                  !.solve_f = is_accepted /\
                              ~existing_accepted(Submission, run.submission.user,
                                                 run.problem.id, run.submission_id),
                  !.pc = "stats_save"]]
    /\ UNCHANGED <<Submission, SubmissionTestResult, Problem, TestCase, call>>

\* column = column + 1 computed in Python from the loaded object
loaded_plus_1(current, loaded) == loaded + 1

\* The value UPDATE ... SET column = F(column) + 1 stores, given the row's
\* current value and the value the object in memory was loaded with
F_plus_1(current, loaded) == current + 1

\* problem.save(update_fields=['attempt_count', 'solve_count']): one UPDATE
\* that writes both columns; a column that holds no F expression is written
\* with the value the object was loaded with
save_update_fields(row, problem, solve_f) ==
    [attempt_count |-> F_plus_1(row.attempt_count, problem.attempt_count),
     solve_count |-> IF solve_f
                     THEN F_plus_1(row.solve_count, problem.solve_count)
                     ELSE problem.solve_count]

\* _update_problem_stats: the save, then the end of execute_all
stats_save(r) ==
    /\ runs[r].pc = "stats_save"
    /\ LET run == runs[r]
           p == run.problem.id
       IN  \/ /\ Problem' = [Problem EXCEPT ![p] =
                    save_update_fields(@, run.problem, run.solve_f)]
              /\ runs' = [runs EXCEPT ![r] =
                    [run EXCEPT !.attempt_incs = @ + 1,
                                !.solve_incs = IF run.solve_f THEN @ + 1 ELSE @,
                                !.temp_dir = "removed",
                                !.temp_name = 0,
                                !.pc = "returned"]]
           \/ /\ runs' = [runs EXCEPT ![r] = Raise(run, "database error")]
              /\ UNCHANGED Problem
    /\ UNCHANGED <<Submission, SubmissionTestResult, TestCase, call>>

\* execute_all: except Exception.  An exception of this save() reaches
\* execute_submission, which logs it and returns
handle_exception(r) ==
    /\ runs[r].pc = "except"
    /\ LET run == runs[r]
           obj == [run.submission EXCEPT
                      !.status = RUNTIME_ERROR,
                      !.error_message = run.error,
                      !.judged_at = TRUE]
       IN  \/ /\ Submission' = save(Submission, run.submission_id, obj)
              /\ runs' = [runs EXCEPT ![r] =
                    [run EXCEPT !.submission = obj, !.pc = "returned"]]
           \/ /\ runs' = [runs EXCEPT ![r] =
                    [run EXCEPT !.submission = obj, !.pc = "returned"]]
              /\ UNCHANGED Submission
    /\ UNCHANGED <<SubmissionTestResult, Problem, TestCase, call>>

Step(r) ==
    \/ execute_submission(r)
    \/ set_running(r)
    \/ count_tests(r)
    \/ prepare_files(r)
    \/ compile(r)
    \/ run_test(r)
    \/ final_save(r)
    \/ update_problem_stats(r)
    \/ stats_save(r)
    \/ handle_exception(r)

Next ==
    \/ \E u \in Users, p \in Problems, l \in Languages :
          submit_solution(u, p, l)
    \/ \E r \in RunIds : Step(r)

Spec == Init /\ [][Next]_vars

\* Requests served one at a time (a single synchronous worker): a
\* submission is posted only when no call of execute_submission is running
NoRunInFlight == \A r \in RunIds : runs[r].pc \in {"idle", "returned"}

submit_solution_seq(user, problem, language) ==
    /\ NoRunInFlight
    /\ submit_solution(user, problem, language)

NextSeq ==
    \/ \E u \in Users, p \in Problems, l \in Languages :
          submit_solution_seq(u, p, l)
    \/ \E r \in RunIds : Step(r)

SpecSeq == Init /\ [][NextSeq]_vars

\* ------------------------------------------------------------- properties
Returned(r) == runs[r].pc = "returned"

\* The row of the submission that call r judges
Row(r) == Submission[runs[r].submission_id]

Started(r) == runs[r].pc # "idle"

\* The calls made for submissions of user u to problem p
RunsOf(u, p) ==
    {r \in RunIds : Started(r) /\ Row(r).user = u /\ Row(r).problem = p}

\* The calls made for submissions to problem p
RunsOn(p) == {r \in RunIds : Started(r) /\ Row(r).problem = p}

\* How many times solve_count = F('solve_count') + 1 was stored by calls in R
RECURSIVE SolveIncrements(_)
SolveIncrements(R) ==
    IF R = {} THEN 0
    ELSE LET r == CHOOSE x \in R : TRUE
         IN  runs[r].solve_incs + SolveIncrements(R \ {r})

\* How many times attempt_count = F('attempt_count') + 1 was stored by calls in R
RECURSIVE AttemptIncrements(_)
AttemptIncrements(R) ==
    IF R = {} THEN 0
    ELSE LET r == CHOOSE x \in R : TRUE
         IN  runs[r].attempt_incs + AttemptIncrements(R \ {r})

TerminalVerdicts ==
    {ACCEPTED, WRONG_ANSWER, TIME_LIMIT_EXCEEDED, RUNTIME_ERROR,
     COMPILATION_ERROR}

\* C1: when execute_submission has returned and the submission is judged
\* (judged_at set), attempt_count was incremented exactly once on its
\* behalf, whatever the verdict.
C1_AttemptOncePerJudged ==
    \A r \in RunIds :
        Returned(r) /\ Row(r).judged_at => runs[r].attempt_incs = 1

\* C2: over any interleaving of the judging runs of distinct submissions,
\* solve_count is incremented at most once on behalf of one (user, problem)
\* pair.
C2_SolveIncrementAtMostOnce ==
    \A u \in Users, p \in Problems : SolveIncrements(RunsOf(u, p)) <= 1

\* Two submissions of one user to one problem are both Accepted, both runs
\* went through the statistics updater, and one increment was applied.
C2_Witness ==
    \E r1, r2 \in RunIds :
        /\ r1 # r2
        /\ Returned(r1) /\ Returned(r2)
        /\ Row(r1).user = Row(r2).user /\ Row(r1).problem = Row(r2).problem
        /\ Row(r1).status = ACCEPTED /\ Row(r2).status = ACCEPTED
        /\ runs[r1].attempt_incs = 1 /\ runs[r2].attempt_incs = 1
        /\ SolveIncrements({r1, r2}) = 1

\* C3: in every step the stored solve_count and attempt_count of every
\* problem are greater than or equal to their previous stored values.
C3_CountersNeverDecrease ==
    [][\A p \in Problems :
          /\ Problem'[p].solve_count >= Problem[p].solve_count
          /\ Problem'[p].attempt_count >= Problem[p].attempt_count]_vars

\* C4: attempt_count of a problem equals its initial value (0) plus the
\* number of judging runs on the problem whose statistics update was
\* executed, in every interleaving.
C4_AttemptCountNoLostUpdate ==
    \A p \in Problems :
        Problem[p].attempt_count = AttemptIncrements(RunsOn(p))

\* Two runs on one problem both loaded the problem before either updated
\* it, both have updated it, and attempt_count is 2.
C4_Witness ==
    \E r1, r2 \in RunIds :
        /\ r1 # r2
        /\ Returned(r1) /\ Returned(r2)
        /\ Row(r1).problem = Row(r2).problem
        /\ runs[r1].attempt_incs = 1 /\ runs[r2].attempt_incs = 1
        /\ runs[r1].problem.attempt_count = 0
        /\ runs[r2].problem.attempt_count = 0
        /\ Problem[Row(r1).problem].attempt_count = 2

\* C5: whenever execute_submission has returned, the submission has
\* judged_at set and a terminal verdict as status.
C5_ReturnedImpliesJudged ==
    \A r \in RunIds :
        Returned(r) => Row(r).judged_at /\ Row(r).status \in TerminalVerdicts

\* The number of test cases of the problem of submission s
TestCount(s) == Cardinality(TestCase[Submission[s].problem])

Results(s) == SubmissionTestResult[s]

\* The positions of the results of s that are not Accepted
Failing(s) == {i \in 1..Len(Results(s)) : Results(s)[i].status # ACCEPTED}

\* The position of the first failing result of s in test order
FirstFailing(s) ==
    CHOOSE i \in Failing(s) :
        \A j \in Failing(s) : Results(s)[i].test_case <= Results(s)[j].test_case

\* C6: every judged submission has tests_total equal to the number of test
\* cases of its problem, on every path that sets judged_at.
C6_TestsTotalIsTestCount ==
    \A s \in 1..Len(Submission) :
        Submission[s].judged_at => Submission[s].tests_total = TestCount(s)

Diagnostics(language) ==
    {_compile(language, proc)[1] :
        proc \in {q \in CompileOutcomes : Truthy(_compile(language, q))}}

\* C9: when the build fails no test is run and no TestResult is created,
\* and once the compilation-error branch has saved, the submission has
\* status CompilationError, the diagnostics as error text, tests_passed 0,
\* tests_total the problem's test count, and judged_at set; no other path
\* gives CompilationError.
C9_BuildFailureShortCircuits ==
    /\ \A r \in RunIds :
          runs[r].build_failed =>
             /\ runs[r].tests_run = 0
             /\ Results(runs[r].submission_id) = <<>>
             /\ Returned(r) /\ ~runs[r].raised =>
                   /\ Row(r).status = COMPILATION_ERROR
                   /\ Row(r).error_message \in Diagnostics(Row(r).language)
                   /\ Row(r).tests_passed = 0
                   /\ Row(r).tests_total = TestCount(runs[r].submission_id)
                   /\ Row(r).judged_at
    /\ \A r \in RunIds :
          Started(r) /\ Row(r).status = COMPILATION_ERROR => runs[r].build_failed

\* A build failed on a problem with two test cases and the run returned
\* through the compilation-error branch.
C9_Witness ==
    \E r \in RunIds :
        /\ runs[r].build_failed /\ Returned(r) /\ ~runs[r].raised
        /\ Row(r).status = COMPILATION_ERROR
        /\ Row(r).tests_total = 2

\* Some other submission of the same user to the same problem is Accepted
OtherAccepted(s) ==
    \E o \in 1..Len(Submission) :
        /\ o # s
        /\ Submission[o].user = Submission[s].user
        /\ Submission[o].problem = Submission[s].problem
        /\ Submission[o].status = ACCEPTED

\* C10: with runs one after another, the statistics update of an Accepted
\* submission adds 1 to attempt_count, and adds 1 to solve_count when the
\* user has no other Accepted submission for the problem and leaves
\* solve_count unchanged when the user has one.
C10_FirstAcceptanceCounted ==
    [][\A r \in RunIds :
          /\ runs[r].pc = "stats_save"
          /\ runs'[r].pc = "returned"
          /\ Row(r).status = ACCEPTED
          => LET p == Row(r).problem
             IN  /\ Problem'[p].attempt_count = Problem[p].attempt_count + 1
                 /\ Problem'[p].solve_count = Problem[p].solve_count +
                       (IF OtherAccepted(runs[r].submission_id) THEN 0 ELSE 1)
      ]_vars

\* Two Accepted submissions of one user to one problem were judged one
\* after the other: solve_count is 1 and attempt_count is 2.
C10_Witness ==
    \E r1, r2 \in RunIds :
        /\ r1 # r2
        /\ Returned(r1) /\ Returned(r2)
        /\ Row(r1).user = Row(r2).user /\ Row(r1).problem = Row(r2).problem
        /\ Row(r1).status = ACCEPTED /\ Row(r2).status = ACCEPTED
        /\ runs[r1].solve_incs = 1 /\ runs[r2].solve_incs = 0
        /\ Problem[Row(r1).problem].solve_count = 1
        /\ Problem[Row(r1).problem].attempt_count = 2

\* C11: when execute_submission has returned from a run in which an
\* unexpected exception was raised (workspace creation, file write,
\* test-result persistence, final save, statistics update), the submission
\* has status RuntimeError, the exception text as error_message, and
\* judged_at set.
C11_ExceptionBecomesRuntimeError ==
    \A r \in RunIds :
        Returned(r) /\ runs[r].raised =>
            /\ Row(r).status = RUNTIME_ERROR
            /\ Row(r).error_message = runs[r].error
            /\ Row(r).judged_at

\* Every call of execute_submission that has a step to take eventually takes
\* it: the request thread keeps running, and every child process exits or is
\* stopped by its timeout (subprocess.run with timeout=)
Fairness == \A r \in RunIds : WF_vars(Step(r))

SpecFair == Init /\ [][Next]_vars /\ Fairness

\* Submission s exists and its stored status is one of S
StatusIn(s, S) == s <= Len(Submission) /\ Submission[s].status \in S

\* C12: every submission whose status has been set to Running eventually
\* gets a terminal verdict, also in executions in which a step of the run
\* fails.
C12_RunningLeadsToVerdict ==
    \A s \in SubIds :
        StatusIn(s, {RUNNING}) ~> StatusIn(s, TerminalVerdicts)

\* C13: once a terminal verdict with judged_at has been stored for a
\* submission, no later step changes its stored status.
C13_VerdictIsFinal ==
    [][\A s \in 1..Len(Submission) :
          Submission[s].judged_at /\ Submission[s].status \in TerminalVerdicts
              => Submission'[s].status = Submission[s].status]_vars

\* ------------------------------------------------- _run_test on its own
MaxText == 3

\* The texts a program may print and a test case may expect: up to MaxText
\* characters, one of them visible
Texts ==
    UNION {[1..n -> {"5", " ", "\n"}] : n \in 0..MaxText}

\* What a child process started by _run_test may do
ProcInputs ==
    {Proc("completed", rc, out, err, 1) :
        rc \in {0, 1}, out \in Texts, err \in {"", "Traceback"}}
    \cup {Proc("TimeoutExpired", 0, <<>>, "", 0),
          Proc("Exception", 0, <<>>, "[Errno 2] No such file or directory", 0)}

InitRunTest ==
    /\ Submission = <<>>
    /\ SubmissionTestResult = [s \in SubIds |-> <<>>]
    /\ Problem = [p \in Problems |-> [solve_count |-> 0, attempt_count |-> 0]]
    /\ TestCase = [p \in Problems |-> {}]
    /\ runs = [r \in RunIds |-> IdleRun]
    /\ \E proc \in ProcInputs, expected \in Texts :
          call = [NoCall EXCEPT !.proc = proc, !.expected = expected]

\* result = self._run_test(source_path, executable_path, temp_dir, test_case)
run_test_call ==
    /\ ~call.done
    /\ call.proc.kind # "none"
    /\ call' = [call EXCEPT !.done = TRUE,
                            !.result = _run_test(call.proc, call.expected)]
    /\ UNCHANGED <<Submission, SubmissionTestResult, Problem, TestCase, runs>>

NextRunTest == run_test_call

SpecRunTest == InitRunTest /\ [][NextRunTest]_vars

\* t is s without its leading and trailing whitespace
IsTrimOf(t, s) ==
    \E a, b \in 0..Len(s) :
        /\ a + b <= Len(s)
        /\ \A i \in 1..a : s[i] \in Whitespace
        /\ \A i \in (Len(s) - b + 1)..Len(s) : s[i] \in Whitespace
        /\ t = SubSeq(s, a + 1, Len(s) - b)
        /\ t # <<>> => t[1] \notin Whitespace /\ t[Len(t)] \notin Whitespace

\* stdout and expected output are equal once both are trimmed
SameTrimmed(s1, s2) == \E t \in Texts : IsTrimOf(t, s1) /\ IsTrimOf(t, s2)

\* C14: the result of a test run is a function of the process outcome:
\* nonzero exit code gives RuntimeError with stdout as actual output and
\* stderr as error text; exit code zero gives Accepted exactly when the
\* trimmed stdout equals the trimmed expected output and WrongAnswer
\* otherwise; a timeout gives TimeLimitExceeded with empty output and the
\* time limit in ms as runtime; any other failure gives RuntimeError with
\* the text of the exception.
C14_RunTestClassification ==
    call.done =>
        LET proc == call.proc
            result == call.result
        IN  /\ proc.kind = "completed" /\ proc.returncode # 0 =>
                  /\ result.status = RUNTIME_ERROR
                  /\ result.actual_output = proc.stdout
                  /\ result.error_message = proc.stderr
            /\ proc.kind = "completed" /\ proc.returncode = 0 =>
                  /\ result.status \in {ACCEPTED, WRONG_ANSWER}
                  /\ result.status = ACCEPTED <=>
                        SameTrimmed(proc.stdout, call.expected)
            /\ proc.kind = "TimeoutExpired" =>
                  /\ result.status = TIME_LIMIT_EXCEEDED
                  /\ result.actual_output = <<>>
                  /\ result.runtime_ms = time_limit * 1000
            /\ proc.kind = "Exception" =>
                  /\ result.status = RUNTIME_ERROR
                  /\ result.error_message = proc.stderr

\* A run that exits with 0 is Accepted although its output differs from the
\* expected output as stored: they are equal only after trimming.
C14_Witness ==
    /\ call.done
    /\ call.proc.kind = "completed" /\ call.proc.returncode = 0
    /\ call.proc.stdout # call.expected
    /\ call.proc.stdout # <<>>
    /\ call.result.status = ACCEPTED

\* The test cases that the results stored for submission s refer to
ResultTestCases(s) == {Results(s)[i].test_case : i \in 1..Len(Results(s))}

\* One result per test case of the problem: none missing, no duplicates
OneResultPerTestCase(s) ==
    /\ Len(Results(s)) = TestCount(s)
    /\ ResultTestCases(s) = TestCase[Submission[s].problem]

\* C15 as stated: every judged submission has exactly one TestResult per
\* test case of its problem (as many results as test cases, no duplicates,
\* none missing).
C15_ResultPerTestCase ==
    \A s \in 1..Len(Submission) :
        Submission[s].judged_at => OneResultPerTestCase(s)

\* C15 amended: the same for the submissions judged by a run whose build
\* did not fail and in which no unexpected exception was raised; the
\* results of any submission never outnumber the test cases and never
\* repeat a test case.
C15_ResultPerTestCaseOfCompletedRun ==
    /\ \A r \in RunIds :
          Started(r) /\ Row(r).judged_at
                     /\ ~runs[r].build_failed /\ ~runs[r].raised
              => OneResultPerTestCase(runs[r].submission_id)
    /\ \A s \in 1..Len(Submission) :
          /\ Len(Results(s)) = Cardinality(ResultTestCases(s))
          /\ ResultTestCases(s) \subseteq TestCase[Submission[s].problem]

\* A submission judged on a problem with two test cases has its two
\* results, one for each test case.
C15_Witness ==
    \E r \in RunIds :
        /\ Returned(r) /\ Row(r).judged_at
        /\ ~runs[r].build_failed /\ ~runs[r].raised
        /\ TestCount(runs[r].submission_id) = 2
        /\ ResultTestCases(runs[r].submission_id) = {1, 2}

\* The sum of the runtimes of the results in rows
RECURSIVE SumRuntime(_)
SumRuntime(rows) ==
    IF rows = <<>> THEN 0 ELSE Head(rows).runtime_ms + SumRuntime(Tail(rows))

\* The results of s were created in ascending order of their test cases
Ascending(s) ==
    \A i, j \in 1..Len(Results(s)) :
        i < j => Results(s)[i].test_case < Results(s)[j].test_case

\* C16: for a judged submission whose build succeeded and whose tests were
\* started, the test cases were run one at a time in ascending order index,
\* a test that ended in
\* WrongAnswer, TimeLimitExceeded or RuntimeError did not keep a later test
\* case from being run and recorded, tests_passed is the number of Accepted
\* results and runtime_ms the sum of the runtimes of the results.
C16_PerTestFailuresContained ==
    \A r \in RunIds :
        Started(r) /\ Row(r).judged_at /\ runs[r].tests_run > 0 =>
            LET s == runs[r].submission_id
            IN  /\ Ascending(s)
                /\ runs[r].tests_run <= Len(Results(s)) + 1
                /\ ~runs[r].raised => OneResultPerTestCase(s)
                /\ Row(r).tests_passed = Len(Results(s)) - Cardinality(Failing(s))
                /\ Row(r).runtime_ms = SumRuntime(Results(s))

\* C16 for the runs in which no unexpected exception was raised
C16_PerTestFailuresContainedUnlessRaised ==
    \A r \in RunIds :
        Started(r) /\ Row(r).judged_at /\ ~runs[r].build_failed
                   /\ ~runs[r].raised =>
            LET s == runs[r].submission_id
            IN  /\ Ascending(s)
                /\ runs[r].tests_run = Len(Results(s))
                /\ OneResultPerTestCase(s)
                /\ Row(r).tests_passed = Len(Results(s)) - Cardinality(Failing(s))
                /\ Row(r).runtime_ms = SumRuntime(Results(s))

\* The run is inside the with block of execute_all
InWithBlock(r) ==
    runs[r].pc \in {"compile", "run_test", "final_save", "update_stats",
                    "stats_save"}

\* The build was started by the run (it failed, or tests were run, or the
\* run went on to the final save)
ReachedBuild(r) ==
    \/ InWithBlock(r)
    \/ runs[r].build_failed
    \/ runs[r].tests_run > 0
    \/ runs[r].attempt_incs > 0

\* What holds of the workspaces in every state: builds and test runs happen
\* in the run's existing directory, a run that reached its build had a
\* directory, no directory of a run exists once the run has left the with
\* block, and two runs never have the same directory.
WorkspaceScoped ==
    /\ \A r \in RunIds :
          InWithBlock(r) =>
              runs[r].temp_dir = "live" /\ runs[r].temp_name \in DirNames
    /\ \A r \in RunIds :
          runs[r].pc \in {"except", "returned"} =>
              /\ runs[r].temp_dir # "live"
              /\ ReachedBuild(r) => runs[r].temp_dir = "removed"
    /\ \A r1, r2 \in RunIds :
          r1 # r2 /\ runs[r1].temp_dir = "live" /\ runs[r2].temp_dir = "live"
              => runs[r1].temp_name # runs[r2].temp_name

\* A run creates a directory at most once and removes it at most once
WorkspaceOnce ==
    \A r \in RunIds :
        \/ runs'[r].temp_dir = runs[r].temp_dir
        \/ runs[r].temp_dir = "none" /\ runs'[r].temp_dir \in {"live", "removed"}
        \/ runs[r].temp_dir = "live" /\ runs'[r].temp_dir = "removed"

\* C17 as stated: besides, every run that has returned acquired a workspace
\* (exactly one) and released it.
C17_ExactlyOneWorkspace ==
    /\ WorkspaceScoped
    /\ \A r \in RunIds : Returned(r) => runs[r].temp_dir = "removed"

\* C17 amended: a run acquires at most one workspace, and exactly one when
\* it reaches its build; it builds and runs its tests in it, releases it
\* exactly once on every exit path, has none once it has returned, and
\* never has the workspace of another run.
C17_WorkspaceScopedPerRun == []WorkspaceScoped /\ [][WorkspaceOnce]_vars

\* Two runs are testing at the same time, each in its own directory.
C17_Witness ==
    \E r1, r2 \in RunIds :
        /\ r1 # r2
        /\ runs[r1].pc = "run_test" /\ runs[r2].pc = "run_test"
        /\ runs[r1].temp_dir = "live" /\ runs[r2].temp_dir = "live"
        /\ runs[r1].temp_name # runs[r2].temp_name

C19_FirstAcceptanceNeverLost ==
    \A u \in Users, p \in Problems :
        /\ NoRunInFlight
        /\ \E r \in RunsOf(u, p) :
              Row(r).status = ACCEPTED /\ runs[r].attempt_incs = 1
        => SolveIncrements(RunsOf(u, p)) >= 1

\* ------------------------------------------------------------ re-judging
\* execute_submission(submission_id) called again for a submission that was
\* judged before, while no other call is running
rejudge(s) ==
    /\ NoRunInFlight
    /\ s <= Len(Submission)
    /\ Submission[s].judged_at
    /\ \E r \in RunIds :
          /\ runs[r].pc = "idle"
          /\ \A q \in RunIds : q < r => runs[q].pc # "idle"
          /\ runs' = [runs EXCEPT ![r] = NewRun(s)]
    /\ UNCHANGED <<Submission, SubmissionTestResult, Problem, TestCase, call>>

NextRejudge ==
    \/ \E u \in Users, p \in Problems, l \in Languages :
          submit_solution_seq(u, p, l)
    \/ \E s \in SubIds : rejudge(s)
    \/ \E r \in RunIds : Step(r)

SpecRejudge == Init /\ [][NextRejudge]_vars

\* Call r judged its submission Accepted and completed its statistics update
JudgedAccepted(r) ==
    /\ Returned(r)
    /\ runs[r].final_status = ACCEPTED
    /\ runs[r].attempt_incs = 1

\* C20: when a submission that an earlier call judged Accepted is judged
\* Accepted again by a later call of execute_submission, the statistics
\* update of the later call leaves solve_count unchanged.
C20_RejudgeKeepsSolveCount ==
    [][\A r \in RunIds :
          /\ runs[r].pc = "stats_save"
          /\ runs'[r].pc = "returned"
          /\ runs[r].final_status = ACCEPTED
          /\ \E q \in RunIds :
                /\ q < r
                /\ runs[q].submission_id = runs[r].submission_id
                /\ JudgedAccepted(q)
          => Problem'[runs[r].problem.id].solve_count =
                Problem[runs[r].problem.id].solve_count
      ]_vars

\* ------------------------------------------------- test cases being edited
\* ProblemAdmin with TestCaseInline: a test case with order index t is
\* added to problem p
add_test_case(p, t) ==
    /\ t \notin TestCase[p]
    /\ TestCase' = [TestCase EXCEPT ![p] = @ \cup {t}]
    /\ UNCHANGED <<Submission, SubmissionTestResult, Problem, runs, call>>

\* The rows of a result list that do not refer to test case t
RECURSIVE WithoutTestCase(_, _)
WithoutTestCase(rows, t) ==
    IF rows = <<>> THEN <<>>
    ELSE IF Head(rows).test_case = t THEN WithoutTestCase(Tail(rows), t)
    ELSE <<Head(rows)>> \o WithoutTestCase(Tail(rows), t)

\* ProblemAdmin with TestCaseInline: test case t of problem p is deleted,
\* and with it the results that refer to it (on_delete=CASCADE)
delete_test_case(p, t) ==
    /\ t \in TestCase[p]
    /\ TestCase' = [TestCase EXCEPT ![p] = @ \ {t}]
    /\ SubmissionTestResult' =
          [s \in SubIds |->
              IF s <= Len(Submission) /\ Submission[s].problem = p
              THEN WithoutTestCase(SubmissionTestResult[s], t)
              ELSE SubmissionTestResult[s]]
    /\ UNCHANGED <<Submission, Problem, runs, call>>

\* One submission is posted and judged while the test cases are edited
submit_solution_first(user, problem, language) ==
    /\ Submission = <<>>
    /\ submit_solution(user, problem, language)

NextEdit ==
    \/ \E u \in Users, p \in Problems, l \in Languages :
          submit_solution_first(u, p, l)
    \/ \E r \in RunIds : Step(r)
    \/ \E p \in Problems, t \in 1..MaxTests : add_test_case(p, t)
    \/ \E p \in Problems, t \in 1..MaxTests : delete_test_case(p, t)

SpecEdit == Init /\ [][NextEdit]_vars

\* C21: in every reachable state tests_passed <= tests_total for every
\* submission, also when test cases are added to or removed from the
\* problem between the count of the test cases and the loop over them.
C21_PassedAtMostTotal ==
    \A s \in 1..Len(Submission) :
        Submission[s].tests_passed <= Submission[s].tests_total

====
